---- MODULE Spec2Model ----
(***************************************************************************)
(* Credential lifecycle of t1-api-client (JavaScript variant):             *)
(*   src/config/index.js          the shared mutable config object         *)
(*   src/services/authService.js  setTokens / login / refresh              *)
(*   src/utils/tokenManager.js    isTokenValid / runSingleFlight /         *)
(*                                ensureValidAccessToken                   *)
(*   src/utils/httpClient.js      request / response interceptors          *)
(*                                                                         *)
(* Node.js runs one job at a time.  A job is started by an event (a call   *)
(* made by the application, or a network answer); the promise reactions    *)
(* it queues run to completion before the next event is taken.  The model  *)
(* keeps that discipline: after an answer of the identity endpoint, the    *)
(* `finally` of the flight and the continuations of the callers awaiting   *)
(* it are separate steps, but no new event is accepted until they have     *)
(* run (see Draining).                                                     *)
(*                                                                         *)
(* Tokens are numbers: NoToken stands for null / undefined / "", and the   *)
(* token issued by the n-th call of login() / refresh() is n.              *)
(***************************************************************************)
EXTENDS Integers, Sequences, FiniteSets, TLC

\* ---------------------------------------------------------------- bounds
NProcs == 2        \* logical tasks of the application
MaxGrants == 3     \* calls of login() / refresh() in one behaviour
MaxTicks == 1      \* clock advances in one behaviour
MaxOps == 3        \* calls the application makes in one behaviour
MaxRequests == 2   \* of them, calls to httpClient

Procs == 1..NProcs
MsPerSecond == 1000
\* Date.now() at load: time is counted in ms from a positive instant.
StartMs == MsPerSecond
NoToken == 0
NoFlight == 0

\* expires_in values (seconds) the identity endpoint may answer: absent (0)
\* and one second more than the default margin.
ExpiresInChoices == {0, 61}
\* Status of a business answer; NoResponse: the send got no response at all
\* (network error, timeout), so error.response is undefined.
NoResponse == 0
Statuses == {200, 401, 500, NoResponse}

VARIABLES
    now,              \* Date.now(), in ms
    config,           \* the credential fields of the shared config object
    refreshInFlight,  \* tokenManager.js: the flight slot (NoFlight = null)
    flights,          \* the flights that have not settled (and a settled
                      \* one for as long as the slot holds its promise)
    grants,           \* calls of login() / refresh() made so far
    proc,             \* the application's tasks and where each one stands
    ops               \* calls the application has made so far

\* The TypeScript variant (src/auth/auth.service.ts, src/auth/token.store.ts)
VARIABLES
    current,          \* MemoryTokenStore.current (NoSet = null)
    caller,           \* the callers of AuthService.getAccessToken()
    probe,            \* the last call the application made on the store itself
    cfg               \* AuthService.cfg: the environment read at construction

vars == <<now, config, refreshInFlight, flights, grants, proc, ops,
          current, caller, probe, cfg>>

jsVars == <<config, refreshInFlight, flights, proc>>
tsVars == <<current, caller, probe, cfg>>

\* ------------------------------------------------------------ config
DefaultSkewSeconds == 60

\* `Number(process.env.T1_HTTP_TIMEOUT_MS || 10000)`
DefaultTimeoutMs == 10000

\* The margins T1_EXPIRY_SKEW_SECONDS may configure, next to the default.
SkewChoices == {0, DefaultSkewSeconds}

\* issuedAt and expiresIn are not fields of the program: they record when the
\* stored credential was written and the expires_in of the response it came
\* from.
InitConfig ==
    [baseURL |-> "https://api.t1comercios.com", clientId |-> "integradores",
     username |-> "username", password |-> "password",
     accessToken |-> NoToken, refreshToken |-> NoToken, expiresAt |-> 0,
     expirySkewSeconds |-> DefaultSkewSeconds,
     requestTimeoutMs |-> DefaultTimeoutMs,
     issuedAt |-> 0, expiresIn |-> 0]

\* ------------------------------------------------------- authService
Max(a, b) == IF a >= b THEN a ELSE b

\* `x || 60`
OrDefault(x, d) == IF x = 0 THEN d ELSE x

\* Variant: expiresAt holds the adjusted lifetime, not an instant.
setTokensDurationOnly(payload) ==
    LET skewMs == OrDefault(config.expirySkewSeconds, DefaultSkewSeconds) * MsPerSecond
        expiresAt == Max(0, payload.ei * MsPerSecond - skewMs)
    IN [config EXCEPT
          !.accessToken = payload.at,
          !.refreshToken = IF payload.rt # NoToken THEN payload.rt ELSE @,
          !.expiresAt = expiresAt,
          !.issuedAt = now,
          !.expiresIn = payload.ei]

\* Variant: the password is dropped from memory once a token is stored.
setTokensDropsPassword(payload) ==
    LET skewMs == OrDefault(config.expirySkewSeconds, DefaultSkewSeconds) * MsPerSecond
        expiresAt == now + Max(0, payload.ei * MsPerSecond - skewMs)
    IN [config EXCEPT
          !.accessToken = payload.at,
          !.refreshToken = IF payload.rt # NoToken THEN payload.rt ELSE @,
          !.expiresAt = expiresAt,
          !.password = "",
          !.issuedAt = now,
          !.expiresIn = payload.ei]

\* Variant: the margin is not subtracted from the lifetime.
setTokensNoMargin(payload) ==
    LET expiresAt == now + payload.ei * MsPerSecond
    IN [config EXCEPT
          !.accessToken = payload.at,
          !.refreshToken = IF payload.rt # NoToken THEN payload.rt ELSE @,
          !.expiresAt = expiresAt,
          !.issuedAt = now,
          !.expiresIn = payload.ei]

\* setTokens(payload) at time `now`; payload = [at, rt, ei], at / rt are
\* NoToken and ei is 0 when the field is absent from the response.
setTokens(payload) ==
    LET skewMs == OrDefault(config.expirySkewSeconds, DefaultSkewSeconds) * MsPerSecond
        expiresAt == now + Max(0, payload.ei * MsPerSecond - skewMs)
    IN [config EXCEPT
          !.accessToken = payload.at,
          !.refreshToken = IF payload.rt # NoToken THEN payload.rt ELSE @,
          !.expiresAt = expiresAt,
          !.issuedAt = now,
          !.expiresIn = payload.ei]

\* The success answers the identity endpoint may give to grant call g: a
\* body with an access_token, with or without refresh_token and expires_in,
\* or a body with none of them (`response.data || {}`).
Payloads(g) ==
    [at : {g}, rt : {g, NoToken}, ei : ExpiresInChoices]
    \cup {[at |-> NoToken, rt |-> NoToken, ei |-> 0]}

\* refresh() throws before any network call when there is no refresh token.
refreshThrowsEarly == config.refreshToken = NoToken

\* Variant: login() returns the token before it is stored.
loginOkNoStore(payload) == [ok |-> TRUE, token |-> payload.at, cfg |-> config]

\* login(), after a success answer: stores whatever came and returns it.
loginOk(payload) == [ok |-> TRUE, token |-> payload.at, cfg |-> setTokens(payload)]

\* Variant: refresh() stores and returns whatever came, as login() does.
refreshOkUnchecked(payload) ==
    [ok |-> TRUE, token |-> payload.at, cfg |-> setTokens(payload)]

\* refresh(), after a success answer: a response without access_token throws
\* inside the try, before setTokens.
refreshOk(payload) ==
    IF payload.at = NoToken
    THEN [ok |-> FALSE, token |-> NoToken, cfg |-> config]
    ELSE [ok |-> TRUE, token |-> payload.at, cfg |-> setTokens(payload)]

\* Variant: a grant that fails takes the stored refresh token for spent.
storeAfterFailedGrantNoRefresh == [config EXCEPT !.refreshToken = NoToken]

\* The catch of login() and of refresh() builds an Error and throws it: the
\* store is not touched.
storeAfterFailedGrant == config

grantOk(kind, payload) ==
    IF kind = "refresh" THEN refreshOk(payload) ELSE loginOk(payload)

\* ------------------------------------------------------ tokenManager
\* Variant: the safety margin, already part of expiresAt, is applied again.
isTokenValidMarginTwice ==
    /\ config.accessToken # NoToken
    /\ now + config.expirySkewSeconds * MsPerSecond < config.expiresAt

\* Variant: the instant expiresAt itself still counts as valid.
isTokenValidInclusive ==
    config.accessToken # NoToken /\ now <= config.expiresAt

isTokenValid ==
    config.accessToken # NoToken /\ now < config.expiresAt

\* Variant: the slot is not consulted, every caller starts its own flight.
runSingleFlightNoShare(kind) ==
    [t |-> "start", f |-> grants + 1, kind |-> kind]

\* Variant: only the refresh goes through the slot, a login always starts.
runSingleFlightRefreshOnly(kind) ==
    IF refreshInFlight # NoFlight /\ kind = "refresh"
    THEN [t |-> "join", f |-> refreshInFlight, kind |-> kind]
    ELSE [t |-> "start", f |-> grants + 1, kind |-> kind]

runSingleFlight(kind) ==
    IF refreshInFlight # NoFlight
    THEN [t |-> "join", f |-> refreshInFlight, kind |-> kind]
    ELSE [t |-> "start", f |-> grants + 1, kind |-> kind]

\* Variant: the refresh attempt is made whether or not a refresh token is
\* stored.
ensureValidAccessTokenRefreshFirst ==
    IF isTokenValid
    THEN [t |-> "cached", f |-> NoFlight, kind |-> "none"]
    ELSE runSingleFlight("refresh")

\* The synchronous part of ensureValidAccessToken(): up to its return from
\* the cache or its first await.
ensureValidAccessToken ==
    IF isTokenValid
    THEN [t |-> "cached", f |-> NoFlight, kind |-> "none"]
    ELSE IF config.refreshToken # NoToken
         THEN runSingleFlight("refresh")
         ELSE runSingleFlight("login")

\* Variant: no try / catch around the refresh attempt.
rethrowsRefreshFailure == FALSE

\* The empty catch block around `await runSingleFlight(() => refresh())`.
swallowsRefreshFailure == TRUE

\* Variant: the slot is cleared after `await fn()` instead of in a finally.
slotClearedOnSuccessOnly(st) ==
    IF st = "fnErr" THEN refreshInFlight ELSE NoFlight

\* The slot after the `finally` of a flight whose fn settled with status st.
slotAfterFinally(st) == NoFlight

\* A flight is "net" while its call to the identity endpoint is unanswered,
\* "fnOk" / "fnErr" once fn has settled and the finally has still to run,
\* "ok" / "err" once its promise has settled.
Unsettled == {"net", "fnOk", "fnErr"}

Flight(id) == CHOOSE fl \in flights : fl.id = id

\* The flight runSingleFlight starts: fn() is called at once.
NewFlight(kind) ==
    [id |-> grants + 1,
     kind |-> kind,
     st |-> IF kind = "refresh" /\ refreshThrowsEarly THEN "fnErr" ELSE "net",
     token |-> NoToken]

\* ------------------------------------------------------------- tasks
NoResult == [kind |-> "none", status |-> 0, token |-> NoToken]

Idle ==
    [op |-> "idle", pc |-> "idle", site |-> "none", branch |-> "none",
     g |-> 0,               \* the number of the direct login() / refresh() call
     hist |-> <<>>,         \* flights awaited by the current ensure call
     resp |-> <<>>,         \* statuses answered to the sends of the request
     retry |-> FALSE,       \* originalRequest._retry
     auth |-> NoToken,      \* token of the Authorization header last set
     firstTok |-> NoToken,  \* token the first send carried
     renewals |-> 0,        \* ensure calls after the first 401 that had to renew
     renewFailed |-> FALSE, \* an ensure call of the request rejected
     result |-> NoResult]

Last(q) == q[Len(q)]

\* Task p awaits a flight whose promise has not settled.
Waiting(p) == proc[p].pc = "await" /\ Last(proc[p].hist).st = "pending"

\* Task p awaits a flight whose promise has settled: its continuation is due.
Resumable(p) == proc[p].pc = "await" /\ Last(proc[p].hist).st # "pending"

\* The microtasks of the current job have not all run.
Draining ==
    \/ \E fl \in flights : fl.st \in {"fnOk", "fnErr"}
    \/ \E p \in Procs : Resumable(p)
    \/ \E p \in Procs : proc[p].pc = "retry"

\* Variant: the request interceptor leaves the header of a retry as the 401
\* handler set it.
OnTokenRetryKeepsHeader(r, tok) ==
    CASE r.site = "direct" ->
           [r EXCEPT !.pc = "done", !.result = [kind |-> "ok", status |-> 0, token |-> tok]]
      [] r.site = "req1" ->
           [r EXCEPT !.pc = "sent", !.hist = <<>>, !.auth = tok, !.firstTok = tok]
      [] r.site = "renew401" ->
           [r EXCEPT !.pc = "retry", !.hist = <<>>, !.auth = tok]
      [] OTHER ->
           [r EXCEPT !.pc = "sent", !.hist = <<>>]

\* Continuation of the caller once its ensure call resolved with tok.
OnToken(r, tok) ==
    CASE r.site = "direct" ->
           [r EXCEPT !.pc = "done", !.result = [kind |-> "ok", status |-> 0, token |-> tok]]
      [] r.site = "req1" ->
           [r EXCEPT !.pc = "sent", !.hist = <<>>, !.auth = tok, !.firstTok = tok]
      [] r.site = "renew401" ->
           [r EXCEPT !.pc = "retry", !.hist = <<>>, !.auth = tok]
      [] OTHER ->
           [r EXCEPT !.pc = "sent", !.hist = <<>>, !.auth = tok]

\* Continuation of the caller once its ensure call rejected.
OnEnsureError(r) ==
    CASE r.site = "direct" ->
           [r EXCEPT !.pc = "done", !.renewFailed = TRUE,
                     !.result = [kind |-> "err", status |-> 0, token |-> NoToken]]
      [] r.site = "req1" ->
           \* the rejection of the request interceptor reaches the error
           \* handler of the response interceptor: no response, status undefined
           [r EXCEPT !.pc = "done", !.renewFailed = TRUE,
                     !.result = [kind |-> "err", status |-> NoResponse, token |-> NoToken]]
      [] OTHER ->
           \* inside the try block of the 401 handler
           [r EXCEPT !.pc = "done", !.renewFailed = TRUE,
                     !.result = [kind |-> "err", status |-> 401, token |-> NoToken]]

\* What the caller of runSingleFlight awaits: the promise of the flight it
\* started, or the promise it found in the slot.
Awaited(o) ==
    IF o.t = "start"
    THEN [id |-> o.f, kind |-> o.kind, st |-> "pending", token |-> NoToken]
    ELSE LET fl == Flight(o.f) IN
         [id |-> o.f, kind |-> fl.kind,
          st |-> IF fl.st \in Unsettled THEN "pending" ELSE fl.st,
          token |-> IF fl.st = "ok" THEN fl.token ELSE NoToken]

\* r is left at the await of runSingleFlight, in the given branch.
Await(r, o, branch) ==
    [r EXCEPT !.pc = "await", !.branch = branch, !.hist = Append(@, Awaited(o))]

\* Variant: the promise of a started flight is not put into the slot.
LaunchLeavesSlot(o) ==
    IF o.t = "start"
    THEN /\ grants < MaxGrants
         /\ flights' = flights \cup {NewFlight(o.kind)}
         /\ refreshInFlight' = refreshInFlight
         /\ grants' = grants + 1
    ELSE UNCHANGED <<flights, refreshInFlight, grants>>

\* State change of a call whose outcome is o: a started flight takes the slot.
Launch(o) ==
    IF o.t = "start"
    THEN /\ grants < MaxGrants
         /\ flights' = flights \cup {NewFlight(o.kind)}
         /\ refreshInFlight' = o.f
         /\ grants' = grants + 1
    ELSE UNCHANGED <<flights, refreshInFlight, grants>>

\* Task p, in state r, calls ensureValidAccessToken() from r.site.
EnsureCall(p, r) ==
    LET o == ensureValidAccessToken IN
    /\ Launch(o)
    /\ proc' = [proc EXCEPT ![p] =
                  IF o.t = "cached" THEN OnToken(r, config.accessToken)
                  ELSE Await([r EXCEPT !.renewals =
                                 IF r.site \in {"renew401", "req2"} THEN @ + 1 ELSE @],
                             o,
                             IF config.refreshToken # NoToken THEN "refresh" ELSE "login")]
    /\ UNCHANGED <<now, config>>

\* ------------------------------------------- MemoryTokenStore (TypeScript)
\* `private current: TokenSet | null = null`: the store holds no set, or one.
NoSet == <<>>

\* Variant: a set saved without refresh token keeps the one stored before.
saveKeepsRefreshToken(tokens) ==
    IF current # NoSet /\ tokens.refreshToken = NoToken
    THEN <<[tokens EXCEPT !.refreshToken = current[1].refreshToken]>>
    ELSE <<tokens>>

\* save(tokens): `this.current = tokens`
save(tokens) == <<tokens>>

\* Variant: a set is handed out once.
afterLoadOnce == NoSet

\* load(): `return this.current`, the store stays as it is.
afterLoad == current

\* clear(): `this.current = null`
clear == NoSet

NoProbe == [op |-> "none", n |-> 0, val |-> NoSet]

\* ------------------------------------------------ AuthService (TypeScript)
\* T1_REFRESH_MARGIN_SEC, default of the environment schema (seconds).
RefreshMarginSec == 30

\* expires_in values (seconds) of a token response: absent (0) and one
\* second more than the margin.
TsExpiresInChoices == {0, RefreshMarginSec + 1}

\* Bodies of a token response with res.ok, for network call g.
TsPayloads(g) ==
    [at : {g}, rt : {g, NoToken}, ei : TsExpiresInChoices]
    \cup {[at |-> NoToken, rt |-> NoToken, ei |-> 0]}

\* passwordGrant(), after an ok response: the TokenSet it returns.
passwordGrant(payload) ==
    [accessToken |-> payload.at,
     refreshToken |-> payload.rt,
     expiresAt |-> now + payload.ei * MsPerSecond]

\* refresh(refreshToken), after an ok response:
\* `refreshToken: data.refresh_token ?? refreshToken`
refresh(refreshToken, payload) ==
    [accessToken |-> payload.at,
     refreshToken |-> IF payload.rt # NoToken THEN payload.rt ELSE refreshToken,
     expiresAt |-> now + payload.ei * MsPerSecond]

\* Variant: the margin is not applied.
cachedUsableNoMargin(cached) ==
    cached # NoSet /\ cached[1].expiresAt - now > 0

\* `cached && (cached.expiresAt - now) > T1_REFRESH_MARGIN_SEC * 1000`
cachedUsable(cached) ==
    /\ cached # NoSet
    /\ cached[1].expiresAt - now > cfg.T1_REFRESH_MARGIN_SEC * MsPerSecond

\* `cached?.refreshToken`
cachedRefreshToken(cached) ==
    IF cached = NoSet THEN NoToken ELSE cached[1].refreshToken

TsIdle ==
    [pc |-> "idle",
     g |-> 0,            \* number of the network call awaited
     rt |-> NoToken,     \* the refresh token passed to refresh()
     calls |-> 0,        \* network calls made for the current call
     result |-> NoResult]

\* Tasks are interchangeable: a new call takes the first free one.
Free(p) ==
    /\ proc[p].pc = "idle"
    /\ \A q \in Procs : q < p => proc[q].pc # "idle"

\* The TypeScript variant after construction.
InitTs ==
    /\ current = NoSet
    /\ caller = [p \in Procs |-> TsIdle]
    /\ probe = NoProbe
    /\ cfg = [T1_REFRESH_MARGIN_SEC |-> RefreshMarginSec]

Init ==
    /\ now = StartMs
    /\ config = InitConfig
    /\ refreshInFlight = NoFlight
    /\ flights = {}
    /\ grants = 0
    /\ proc = [p \in Procs |-> Idle]
    /\ ops = 0
    /\ InitTs

\* The application calls ensureValidAccessToken() itself.
StartEnsure(p) ==
    /\ ~Draining
    /\ Free(p)
    /\ ops < MaxOps
    /\ ops' = ops + 1
    /\ EnsureCall(p, [Idle EXCEPT !.op = "ensure", !.site = "direct"])

\* The application calls httpClient: the request interceptor runs.
StartRequest(p) ==
    /\ ~Draining
    /\ Free(p)
    /\ ops < MaxRequests
    /\ ops' = ops + 1
    /\ EnsureCall(p, [Idle EXCEPT !.op = "request", !.site = "req1"])

\* The application calls the exported auth.login().
StartLogin(p) ==
    /\ ~Draining
    /\ Free(p)
    /\ ops < MaxOps
    /\ ops' = ops + 1
    /\ grants < MaxGrants
    /\ grants' = grants + 1
    /\ proc' = [proc EXCEPT ![p] =
                  [Idle EXCEPT !.op = "login", !.pc = "net", !.g = grants + 1]]
    /\ UNCHANGED <<now, config, refreshInFlight, flights>>

\* The application calls the exported auth.refresh().
StartRefresh(p) ==
    /\ ~Draining
    /\ Free(p)
    /\ ops < MaxOps
    /\ ops' = ops + 1
    /\ grants < MaxGrants
    /\ grants' = grants + 1
    /\ proc' = [proc EXCEPT ![p] =
                  IF refreshThrowsEarly
                  THEN [Idle EXCEPT !.op = "refresh", !.pc = "done",
                                    !.result = [kind |-> "err", status |-> 0,
                                                token |-> NoToken]]
                  ELSE [Idle EXCEPT !.op = "refresh", !.pc = "net", !.g = grants + 1]]
    /\ UNCHANGED <<now, config, refreshInFlight, flights>>

\* The identity endpoint answers a direct auth.login() / auth.refresh().
AuthGrant(p, payload) ==
    /\ ~Draining
    /\ proc[p].pc = "net"
    /\ LET res == grantOk(proc[p].op, payload) IN
       /\ config' = res.cfg
       /\ proc' = [proc EXCEPT ![p].pc = "done",
                               ![p].result =
                                  [kind |-> IF res.ok THEN "ok" ELSE "err",
                                   status |-> 0, token |-> res.token]]
    /\ UNCHANGED <<now, refreshInFlight, flights, grants, ops>>

\* ... or rejects it, or never answers (the catch rethrows an Error).
AuthReject(p) ==
    /\ ~Draining
    /\ proc[p].pc = "net"
    /\ config' = storeAfterFailedGrant
    /\ proc' = [proc EXCEPT ![p].pc = "done",
                            ![p].result = [kind |-> "err", status |-> 0,
                                           token |-> NoToken]]
    /\ UNCHANGED <<now, refreshInFlight, flights, grants, ops>>

\* The identity endpoint answers the grant call of flight fl: fn settles.
IdpGrant(fl, payload) ==
    /\ ~Draining
    /\ fl.st = "net"
    /\ LET res == grantOk(fl.kind, payload) IN
       /\ config' = res.cfg
       /\ flights' = (flights \ {fl}) \cup
                     {[fl EXCEPT !.st = IF res.ok THEN "fnOk" ELSE "fnErr",
                                 !.token = res.token]}
    /\ UNCHANGED <<now, refreshInFlight, grants, proc, ops>>

IdpReject(fl) ==
    /\ ~Draining
    /\ fl.st = "net"
    /\ flights' = (flights \ {fl}) \cup {[fl EXCEPT !.st = "fnErr"]}
    /\ config' = storeAfterFailedGrant
    /\ UNCHANGED <<now, refreshInFlight, grants, proc, ops>>

\* The `finally` of the flight runs and the flight's promise settles: the
\* callers awaiting it have their outcome.
FlightFinally(fl) ==
    LET st == IF fl.st = "fnOk" THEN "ok" ELSE "err"
        settled == [fl EXCEPT !.st = st]
        slot == slotAfterFinally(fl.st)
    IN
    /\ fl.st \in {"fnOk", "fnErr"}
    /\ refreshInFlight' = slot
    /\ flights' = IF slot = fl.id
                  THEN (flights \ {fl}) \cup {settled}
                  ELSE flights \ {fl}
    /\ proc' = [p \in Procs |->
                  IF Waiting(p) /\ Last(proc[p].hist).id = fl.id
                  THEN [proc[p] EXCEPT !.hist[Len(proc[p].hist)] =
                           [id |-> fl.id, kind |-> fl.kind, st |-> st,
                            token |-> fl.token]]
                  ELSE proc[p]]
    /\ UNCHANGED <<now, config, grants, ops>>

\* A caller awaiting a settled flight continues.
Resume(p) ==
    LET r == proc[p]
        fl == Last(r.hist)
    IN
    /\ Resumable(p)
    /\ IF fl.st = "ok"
       THEN /\ proc' = [proc EXCEPT ![p] = OnToken(r, fl.token)]
            /\ UNCHANGED <<flights, refreshInFlight, grants>>
       ELSE IF r.branch = "refresh" /\ swallowsRefreshFailure
            THEN LET o == runSingleFlight("login") IN
                 /\ Launch(o)
                 /\ proc' = [proc EXCEPT ![p] = Await(r, o, "login")]
            ELSE /\ proc' = [proc EXCEPT ![p] = OnEnsureError(r)]
                 /\ UNCHANGED <<flights, refreshInFlight, grants>>
    /\ UNCHANGED <<now, config, ops>>

\* Variant: the _retry flag is not consulted.
alreadyRetriedIgnored(r) == FALSE

\* `if (originalRequest._retry)`
alreadyRetried(r) == r.retry

\* The rejection the caller of httpClient sees when a send fails with
\* status s: the retry runs inside the try block of the 401 handler, whose
\* catch turns every rejection into a 401.
Rejection(r, s) ==
    [kind |-> "err", status |-> IF r.retry THEN 401 ELSE s, token |-> NoToken]

\* The API answers the outstanding send of request p with status s.
ApiAnswer(p, s) ==
    LET r == [proc[p] EXCEPT !.resp = Append(@, s)] IN
    /\ ~Draining
    /\ proc[p].pc = "sent"
    /\ UNCHANGED ops
    /\ IF s = 200
       THEN /\ proc' = [proc EXCEPT ![p] =
                          [r EXCEPT !.pc = "done",
                                    !.result = [kind |-> "ok", status |-> 200,
                                                token |-> NoToken]]]
            /\ UNCHANGED <<now, config, refreshInFlight, flights, grants>>
       ELSE IF s # 401 \/ alreadyRetried(r)
            THEN /\ proc' = [proc EXCEPT ![p] =
                               [r EXCEPT !.pc = "done", !.result = Rejection(r, s)]]
                 /\ UNCHANGED <<now, config, refreshInFlight, flights, grants>>
            ELSE EnsureCall(p, [r EXCEPT !.retry = TRUE, !.site = "renew401"])

\* httpClient(originalRequest): the request interceptor runs for the retry.
RetryIntercept(p) ==
    /\ proc[p].pc = "retry"
    /\ UNCHANGED ops
    /\ EnsureCall(p, [proc[p] EXCEPT !.site = "req2"])

\* The caller has its result; the task is free for another call.
Return(p) ==
    /\ ~Draining
    /\ proc[p].pc = "done"
    /\ proc' = [proc EXCEPT ![p] = Idle]
    /\ UNCHANGED <<now, config, refreshInFlight, flights, grants, ops>>

\* Time passes.
Tick ==
    /\ now < StartMs + MaxTicks * MsPerSecond
    /\ now' = now + MsPerSecond
    /\ UNCHANGED <<config, refreshInFlight, flights, grants, proc, ops>>
    /\ UNCHANGED tsVars

\* Steps shared by every specification: the answers of the identity endpoint,
\* the microtasks of the flights and of their callers, and the clock.
Broker ==
    \/ (\E fl \in flights : \E payload \in Payloads(fl.id) : IdpGrant(fl, payload))
       /\ UNCHANGED tsVars
    \/ (\E fl \in flights : IdpReject(fl)) /\ UNCHANGED tsVars
    \/ (\E fl \in flights : FlightFinally(fl)) /\ UNCHANGED tsVars
    \/ (\E p \in Procs : Resume(p)) /\ UNCHANGED tsVars
    \/ (\E p \in Procs : Return(p)) /\ UNCHANGED tsVars
    \/ Tick

\* tokenManager and authService under their direct callers.
Next ==
    \/ (\E p \in Procs : StartEnsure(p)) /\ UNCHANGED tsVars
    \/ (\E p \in Procs : StartLogin(p)) /\ UNCHANGED tsVars
    \/ (\E p \in Procs : StartRefresh(p)) /\ UNCHANGED tsVars
    \/ (\E p \in Procs : \E payload \in Payloads(proc[p].g) : AuthGrant(p, payload))
       /\ UNCHANGED tsVars
    \/ (\E p \in Procs : AuthReject(p)) /\ UNCHANGED tsVars
    \/ Broker

Spec == Init /\ [][Next]_vars

\* httpClient over tokenManager and authService.
NextHttp ==
    \/ (\E p \in Procs : StartRequest(p)) /\ UNCHANGED tsVars
    \/ (\E p \in Procs, s \in Statuses : ApiAnswer(p, s)) /\ UNCHANGED tsVars
    \/ (\E p \in Procs : RetryIntercept(p)) /\ UNCHANGED tsVars
    \/ Broker

SpecHttp == Init /\ [][NextHttp]_vars

\* tokenManager and authService under every configured margin.
InitConfigured ==
    /\ now = StartMs
    /\ config \in {[InitConfig EXCEPT !.expirySkewSeconds = skew] : skew \in SkewChoices}
    /\ refreshInFlight = NoFlight
    /\ flights = {}
    /\ grants = 0
    /\ proc = [p \in Procs |-> Idle]
    /\ ops = 0
    /\ InitTs

SpecConfigured == InitConfigured /\ [][Next]_vars

\* ------------------------------------------------------------ claims
IsRequest(p) == proc[p].op = "request"

\* Sends of the current call of task p.
Sends(p) == Len(proc[p].resp) + (IF proc[p].pc = "sent" THEN 1 ELSE 0)

\* Calls to the identity endpoint that have not been answered.
Outstanding ==
    Cardinality({fl \in flights : fl.st = "net"})
    + Cardinality({p \in Procs : proc[p].pc = "net"})

\* C1: callers of ensureValidAccessToken that overlap wait on one and the
\* same flight, at most one flight is unsettled at any time, and every
\* caller of a refresh flight that succeeds waited on that flight alone (one
\* refresh, no login) and resolves with the token that refresh returned.
C1_ConcurrentCallersShareOneRefresh ==
    /\ \A p, q \in Procs :
         Waiting(p) /\ Waiting(q)
         => Last(proc[p].hist).id = Last(proc[q].hist).id
    /\ Cardinality({fl \in flights : fl.st \in Unsettled}) <= 1
    /\ \A p \in Procs :
         LET h == proc[p].hist IN
         h # <<>> /\ h[1].kind = "refresh" /\ h[1].st \in {"pending", "ok"}
         => /\ Len(h) = 1
            /\ h[1].st = "ok"
               => /\ h[1].token # NoToken
                  /\ proc[p].pc = "done"
                     => proc[p].result = [kind |-> "ok", status |-> 0,
                                          token |-> h[1].token]

\* Two callers have resolved from one and the same successful refresh
\* flight, the only refresh that was made.
C1_Witness ==
    \E p, q \in Procs :
        /\ p # q
        /\ proc[p].pc = "done" /\ proc[q].pc = "done"
        /\ Len(proc[p].hist) = 1 /\ proc[q].hist = proc[p].hist
        /\ proc[p].hist[1].kind = "refresh" /\ proc[p].hist[1].st = "ok"
        /\ proc[p].hist[1].id = 2 /\ grants = 2
        /\ proc[p].result.kind = "ok"
        /\ proc[p].result.token = proc[q].result.token

\* C2: at most one call to the identity endpoint is outstanding.
C2_AtMostOneRenewalOutstanding == Outstanding <= 1

\* C3: the slot never holds a settled flight: the step that settles a flight
\* leaves the slot empty, whatever the flight's outcome, and a caller that
\* waits does so on the flight of the slot, which has still to settle.
C3_SlotClearedOnEveryExit ==
    /\ refreshInFlight # NoFlight
       => \E fl \in flights : fl.id = refreshInFlight /\ fl.st \in Unsettled
    /\ \A fl \in flights : fl.st \in Unsettled
    /\ \A fl \in flights :
         fl.st \in {"fnOk", "fnErr"} => refreshInFlight = fl.id
    /\ \A p \in Procs : Waiting(p) => Last(proc[p].hist).id = refreshInFlight

\* After a flight that failed, a later call has started a new flight.
C3_Witness ==
    \E p, q \in Procs :
        /\ proc[q].pc = "done" /\ proc[q].result.kind = "err"
        /\ proc[q].hist # <<>> /\ Last(proc[q].hist).st = "err"
        /\ Waiting(p)
        /\ Last(proc[p].hist).id > Last(proc[q].hist).id
        /\ refreshInFlight = Last(proc[p].hist).id

\* C4: the retry that follows a 401 carries a token other than the one the
\* API has just rejected.
C4_RetryCarriesRenewedToken ==
    \A p \in Procs :
        IsRequest(p) /\ proc[p].pc = "sent" /\ proc[p].resp = <<401>>
        => proc[p].auth # proc[p].firstTok

\* C5: a call answered 401 and then 200 succeeds with the second body after
\* exactly one renewal and one retry send.
C5_OneRenewalOneRetry ==
    \A p \in Procs :
        IsRequest(p) /\ proc[p].pc = "done" /\ proc[p].resp = <<401, 200>>
        => /\ proc[p].result.kind = "ok"
           /\ proc[p].result.status = 200
           /\ proc[p].renewals = 1

\* C6: a call sends at most twice; answered 401 twice it ends with an error
\* of status 401; an answer that is a failure other than 401 is the last
\* answer of the call.
C6_AtMostOneRetry ==
    \A p \in Procs :
        IsRequest(p)
        => /\ Sends(p) <= 2
           /\ proc[p].resp = <<401, 401>>
              => /\ proc[p].pc = "done"
                 /\ proc[p].result.kind = "err"
                 /\ proc[p].result.status = 401
           /\ \A i \in 1..Len(proc[p].resp) :
                proc[p].resp[i] \notin {200, 401}
                => i = Len(proc[p].resp) /\ proc[p].pc = "done"

\* A call has been answered 401 on both sends and is over.
C6_Witness ==
    \E p \in Procs :
        /\ IsRequest(p) /\ proc[p].pc = "done"
        /\ proc[p].resp = <<401, 401>>
        /\ proc[p].result.status = 401

\* C7: a send answered with error status 500, first send or retry, ends the
\* call with an error of status 500.
C7_NonAuthStatusSurfaced ==
    \A p \in Procs :
        /\ IsRequest(p) /\ proc[p].pc = "done"
        /\ proc[p].resp # <<>> /\ Last(proc[p].resp) = 500
        => proc[p].result.kind = "err" /\ proc[p].result.status = 500

\* C8: a call one of whose renewals failed ends with an error of status 401.
C8_RenewalFailureIs401 ==
    \A p \in Procs :
        IsRequest(p) /\ proc[p].pc = "done" /\ proc[p].renewFailed
        => proc[p].result.kind = "err" /\ proc[p].result.status = 401

\* C9: a call to ensureValidAccessToken made while the stored credential is
\* valid resolves at once with the stored token and changes neither the
\* store, nor the slot, nor the flights, nor the number of identity calls.
C9_ValidCredentialServedFromCache ==
    [][\A p \in Procs :
         (/\ proc[p].pc = "idle" /\ proc'[p].op = "ensure"
          /\ config.accessToken # NoToken
          /\ now < config.expiresAt)
         => /\ proc'[p].pc = "done"
            /\ proc'[p].hist = <<>>
            /\ proc'[p].result = [kind |-> "ok", status |-> 0,
                                  token |-> config.accessToken]
            /\ UNCHANGED <<config, refreshInFlight, flights, grants>>]_vars

\* A call has been served from the cache while the renewal of another caller
\* is waiting for its answer.
C9_Witness ==
    \E p, q \in Procs :
        /\ p # q
        /\ proc[p].op = "ensure" /\ proc[p].pc = "done" /\ proc[p].hist = <<>>
        /\ config.accessToken # NoToken /\ now < config.expiresAt
        /\ proc[p].result = [kind |-> "ok", status |-> 0,
                             token |-> config.accessToken]
        /\ Waiting(q)
        /\ \E fl \in flights : fl.id = refreshInFlight /\ fl.st = "net"

\* C10: a caller whose refresh attempt failed goes on to a login flight and
\* ends as that login ends; a call that rejects has seen a login fail.
C10_RefreshFailureFallsBackToLogin ==
    \A p \in Procs :
        LET h == proc[p].hist IN
        /\ ( /\ h # <<>>
             /\ h[1].kind = "refresh" /\ h[1].st = "err"
             /\ (Len(h) > 1 \/ proc[p].pc = "done") )
           => /\ Len(h) = 2
              /\ h[2].kind = "login"
              /\ proc[p].pc = "done"
                 => \/ /\ h[2].st = "ok"
                       /\ proc[p].result = [kind |-> "ok", status |-> 0,
                                            token |-> h[2].token]
                    \/ /\ h[2].st = "err"
                       /\ proc[p].result.kind = "err"
        /\ ( proc[p].pc = "done" /\ proc[p].result.kind = "err" /\ h # <<>> )
           => Last(h).kind = "login" /\ Last(h).st = "err"

\* A caller has resolved with the token of the login that followed its
\* failed refresh.
C10_Witness ==
    \E p \in Procs :
        LET h == proc[p].hist IN
        /\ proc[p].pc = "done" /\ proc[p].result.kind = "ok"
        /\ Len(h) = 2
        /\ h[1].kind = "refresh" /\ h[1].st = "err"
        /\ h[2].kind = "login" /\ h[2].st = "ok"
        /\ h[2].token # NoToken
        /\ proc[p].result.token = h[2].token

\* C11: a call to ensureValidAccessToken made with no valid credential and no
\* refresh token awaits a login flight, starting it (one call to the identity
\* endpoint) unless one is in the slot already, and no refresh flight exists;
\* when that flight settles the call is over and has started nothing else.
C11_NoRefreshTokenLoginOnce ==
    [][\A p \in Procs :
         /\ ( /\ proc[p].pc = "idle" /\ proc'[p].op = "ensure"
              /\ ~(config.accessToken # NoToken /\ now < config.expiresAt)
              /\ config.refreshToken = NoToken )
            => /\ proc'[p].pc = "await"
               /\ proc'[p].branch = "login"
               /\ Len(proc'[p].hist) = 1
               /\ proc'[p].hist[1].kind = "login"
               /\ \A fl \in flights' : fl.kind = "login"
               /\ IF refreshInFlight = NoFlight
                  THEN /\ grants' = grants + 1
                       /\ flights' = flights \cup
                             {[id |-> grants + 1, kind |-> "login",
                               st |-> "net", token |-> NoToken]}
                  ELSE UNCHANGED <<grants, flights>>
         /\ ( /\ proc[p].op = "ensure" /\ proc[p].branch = "login"
              /\ Len(proc[p].hist) = 1 /\ proc[p].pc = "await" )
            => /\ proc'[p].pc \in {"await", "done"}
               /\ Len(proc'[p].hist) = 1
               /\ proc'[p].hist[1].id = proc[p].hist[1].id
               /\ proc'[p].pc = "done"
                  => UNCHANGED <<grants, flights, refreshInFlight>>]_vars

\* A call made with nothing stored has resolved with the token of the one
\* login that was made.
C11_Witness ==
    \E p \in Procs :
        /\ proc[p].op = "ensure" /\ proc[p].pc = "done"
        /\ proc[p].branch = "login"
        /\ Len(proc[p].hist) = 1
        /\ proc[p].hist[1].kind = "login" /\ proc[p].hist[1].st = "ok"
        /\ grants = 1
        /\ proc[p].result = [kind |-> "ok", status |-> 0, token |-> 1]

\* C12: a login flight that failed is the last flight any of its waiters
\* awaits: the slot no longer holds it, each waiter ends rejected, and none
\* of them goes on to another call of the identity endpoint.
C12_WaitersRejectedTogether ==
    \A p \in Procs : \A i \in 1..Len(proc[p].hist) :
        LET h == proc[p].hist IN
        h[i].kind = "login" /\ h[i].st = "err"
        => /\ refreshInFlight # h[i].id
           /\ i = Len(h)
           /\ proc[p].pc = "done" => proc[p].result.kind = "err"

\* C13: every send of a request, the retry included, is made by the step in
\* which a call to ensureValidAccessToken made by the request interceptor
\* returns, from the cache or from the flight it awaited, and carries the
\* token that call returned.
C13_EverySendCarriesEnsuredToken ==
    [][\A p \in Procs :
         (proc'[p].pc = "sent" /\ proc'[p] # proc[p])
         => \/ /\ proc[p].pc \in {"idle", "retry"}
               /\ config.accessToken # NoToken /\ now < config.expiresAt
               /\ proc'[p].auth = config.accessToken
            \/ /\ proc[p].pc = "await"
               /\ proc[p].site \in {"req1", "req2"}
               /\ Last(proc[p].hist).st = "ok"
               /\ proc'[p].auth = Last(proc[p].hist).token]_vars

\* A retry has left with the token that the request interceptor obtained by
\* a renewal of its own, after the renewal of the 401 handler.
C13_Witness ==
    \E p \in Procs :
        /\ IsRequest(p) /\ proc[p].pc = "sent" /\ proc[p].resp = <<401>>
        /\ proc[p].auth = config.accessToken
        /\ proc[p].auth # NoToken
        /\ proc[p].firstTok # proc[p].auth
        /\ proc[p].renewals = 2

\* C14: isTokenValid is true exactly when an access token is stored and the
\* clock is before expiresAt; at expiresAt and after it, and with no access
\* token, it is false.
C14_ValidIffTokenAndBeforeExpiry ==
    /\ isTokenValid <=> (config.accessToken # NoToken /\ now < config.expiresAt)
    /\ now >= config.expiresAt => ~isTokenValid
    /\ config.accessToken = NoToken => ~isTokenValid

\* A credential that was valid when stored has reached its expiresAt and a
\* caller is renewing it.
C14_Witness ==
    /\ config.accessToken # NoToken
    /\ config.issuedAt < config.expiresAt
    /\ now = config.expiresAt
    /\ ~isTokenValid
    /\ \E p \in Procs : proc[p].op = "ensure" /\ Waiting(p)

\* C15: a stored credential written at time issuedAt from a response with
\* lifetime expiresIn under the configured margin has
\* expiresAt = issuedAt + max(0, expiresIn * 1000 - margin * 1000), for every
\* configured margin, 0 included, and expiresAt is never before issuedAt.
C15_ExpiresAtIsLifetimeMinusMargin ==
    config.accessToken # NoToken
    => /\ config.expiresAt =
            config.issuedAt
            + Max(0, config.expiresIn * MsPerSecond
                     - config.expirySkewSeconds * MsPerSecond)
       /\ config.expiresAt >= config.issuedAt

\* C16: a stored token written at time issuedAt with lifetime expiresIn under
\* the configured margin is valid at exactly the times
\* issuedAt <= now < issuedAt + (expiresIn - margin) * 1000.
C16_ValidUntilMarginBeforeExpiry ==
    config.accessToken # NoToken
    => ( isTokenValid
         <=> /\ config.issuedAt <= now
             /\ now < config.issuedAt
                      + (config.expiresIn - config.expirySkewSeconds) * MsPerSecond )

\* C17: whenever an access token is stored, the stored expiresAt is greater
\* than 0.
C17_StoredTokenHasPositiveExpiry ==
    config.accessToken # NoToken => config.expiresAt > 0

\* A token is stored that came from a response without expires_in: its
\* expiresAt is the instant it was stored, the least the code can store.
C17_Witness ==
    /\ config.accessToken # NoToken
    /\ config.expiresIn = 0
    /\ config.expiresAt = config.issuedAt
    /\ config.expiresAt > 0

\* C18: the stored fields all come from one response: a stored refresh token
\* was issued by the same call of the identity endpoint as the stored access
\* token.
C18_StoredFieldsFromOneGrant ==
    config.refreshToken # NoToken => config.refreshToken = config.accessToken

\* C19: once an access token is stored, no step leaves the store without one.
C19_StoredTokenNeverCleared ==
    [][config.accessToken # NoToken => config'.accessToken # NoToken]_vars

\* C20: on a successful renewal the store is written first, the slot is
\* cleared next and the waiters are resolved last: while the flight's fn has
\* returned and the slot still holds the flight, the store already has its
\* token; when a waiter is about to be resolved, the slot is empty and the
\* store holds the token the waiter receives.
C20_StoreThenSlotThenWaiters ==
    /\ \A fl \in flights :
         fl.st = "fnOk"
         => /\ refreshInFlight = fl.id
            /\ config.accessToken = fl.token
            /\ \A p \in Procs :
                 proc[p].pc = "await" /\ Last(proc[p].hist).id = fl.id
                 => Last(proc[p].hist).st = "pending"
    /\ \A p \in Procs :
         Resumable(p) /\ Last(proc[p].hist).st = "ok"
         => /\ refreshInFlight = NoFlight
            /\ config.accessToken = Last(proc[p].hist).token

\* Two waiters of one successful refresh are about to be resolved: the slot
\* is empty and the store holds the token they will receive.
C20_Witness ==
    \E p, q \in Procs :
        /\ p # q
        /\ Resumable(p) /\ Resumable(q)
        /\ Last(proc[p].hist) = Last(proc[q].hist)
        /\ Last(proc[p].hist).kind = "refresh"
        /\ Last(proc[p].hist).st = "ok"
        /\ Last(proc[p].hist).token # NoToken
        /\ refreshInFlight = NoFlight
        /\ config.accessToken = Last(proc[p].hist).token

\* The credential fields of two values of the config object agree.
SameCredential(c, d) ==
    /\ c.accessToken = d.accessToken
    /\ c.refreshToken = d.refreshToken
    /\ c.expiresAt = d.expiresAt

\* C21: login() and refresh() never write the credential store themselves: a
\* direct call of auth.login() or auth.refresh(), from its start to its
\* return, leaves accessToken, refreshToken and expiresAt as they were.
C21_GrantOperationsLeaveStore ==
    [][\A p \in Procs :
          (proc[p].op \in {"login", "refresh"} /\ proc[p].pc = "net"
           /\ proc'[p].pc = "done")
          => SameCredential(config', config)]_vars

\* C22: refresh() fails in three cases and leaves the stored credential as it
\* was in each: with no refresh token stored it fails without a network call;
\* when the identity endpoint rejects, and when the response has no
\* access_token, it fails after the call.  Whenever it succeeds, the token
\* it returns is a real one and is the one stored.  The same holds for the
\* refresh() a flight runs.
C22_RefreshFailureLeavesStore ==
    [][/\ \A p \in Procs :
            /\ (proc[p].pc = "idle" /\ proc'[p].op = "refresh")
               => /\ config' = config
                  /\ (config.refreshToken = NoToken)
                     <=> (proc'[p].pc = "done" /\ proc'[p].result.kind = "err")
            /\ (proc[p].op = "refresh" /\ proc[p].pc = "net" /\ proc'[p].pc = "done")
               => IF proc'[p].result.kind = "err"
                  THEN config' = config
                  ELSE /\ proc'[p].result.token # NoToken
                       /\ config'.accessToken = proc'[p].result.token
       /\ \A fl \in flights : \A fl2 \in flights' :
            (fl.kind = "refresh" /\ fl.st = "net" /\ fl2.id = fl.id)
            => /\ fl2.st = "fnErr" => config' = config
               /\ fl2.st = "fnOk" => /\ fl2.token # NoToken
                                     /\ config'.accessToken = fl2.token]_vars

\* A direct refresh() made its network call and failed while a credential
\* with a refresh token was stored.
C22_Witness ==
    \E p \in Procs :
        /\ proc[p].op = "refresh"
        /\ proc[p].pc = "done"
        /\ proc[p].g # 0
        /\ proc[p].result.kind = "err"
        /\ config.accessToken # NoToken
        /\ config.refreshToken # NoToken

\* Steps the event loop owes: the `finally` of a settled flight, the
\* continuations of the callers awaiting it, and the resend of a request.
Microtasks ==
    /\ \/ \E fl \in flights : FlightFinally(fl)
       \/ \E p \in Procs : Resume(p)
       \/ \E p \in Procs : RetryIntercept(p)
    /\ UNCHANGED tsVars

\* A send of httpClient is answered, or fails when the timeout of the axios
\* instance (10000 ms) expires.
ApiSettles ==
    /\ \E p \in Procs, s \in Statuses : ApiAnswer(p, s)
    /\ UNCHANGED tsVars

\* The identity endpoint answers the call of a flight, or the call fails.
IdpSettles ==
    /\ \/ \E fl \in flights : \E payload \in Payloads(fl.id) : IdpGrant(fl, payload)
       \/ \E fl \in flights : IdpReject(fl)
    /\ UNCHANGED tsVars

\* httpClient with what the code's timeouts guarantee: the axios instance of
\* httpClient has a timeout, so a send always settles; login() and refresh()
\* post through the global axios without a timeout option, so nothing makes
\* their call settle when the identity endpoint stays silent.
SpecHttpTimeouts ==
    /\ Init
    /\ [][NextHttp]_vars
    /\ WF_vars(Microtasks)
    /\ WF_vars(ApiSettles)

\* The calls to the identity endpoint a behaviour may make are used up: a
\* caller that needs a further flight cannot go on, which is a limit of the
\* exploration and not of the program.
BudgetSpent == grants = MaxGrants

\* C23: every network operation is bounded by the request timeout and a
\* timeout fails the operation, so with a remote side that never answers no
\* renewal flight stays in the slot forever and no request stays pending
\* forever.
C23_NoOperationPendingForever ==
    /\ (refreshInFlight # NoFlight) ~> (refreshInFlight = NoFlight \/ BudgetSpent)
    /\ \A p \in Procs :
         (proc[p].pc \in {"await", "sent", "retry"})
         ~> (proc[p].pc = "done" \/ BudgetSpent)

\* httpClient under the assumption that every network operation is answered
\* or fails: the sends of httpClient and the calls to the identity endpoint.
SpecHttpAnswered ==
    /\ Init
    /\ [][NextHttp]_vars
    /\ WF_vars(Microtasks)
    /\ WF_vars(ApiSettles)
    /\ WF_vars(IdpSettles)

\* The fields of the config object that are loaded from the environment.
Settings ==
    {"baseURL", "clientId", "username", "password", "expirySkewSeconds",
     "requestTimeoutMs"}

\* C24: configuration is immutable after load: no step of login, refresh or
\* ensureValidAccessToken changes the base URL, the client id, the username,
\* the password, the renewal margin or the request timeout.
C24_SettingsNeverChange ==
    [][\A f \in Settings : config'[f] = config[f]]_vars

\* After three calls to the identity endpoint and a successful ensure call,
\* the three credential fields differ from their values at load and the
\* settings are those of the load.
C24_Witness ==
    /\ config.accessToken # InitConfig.accessToken
    /\ config.refreshToken # InitConfig.refreshToken
    /\ config.expiresAt # InitConfig.expiresAt
    /\ \A f \in Settings : config[f] = InitConfig[f]
    /\ grants = 3
    /\ \E p \in Procs :
         proc[p].op = "ensure" /\ proc[p].pc = "done" /\ proc[p].result.kind = "ok"

\* ------------------------------------- the TypeScript variant: actions
\* Callers are interchangeable: a new call takes the first free one.
TsFree(p) ==
    /\ caller[p].pc = "idle"
    /\ \A q \in Procs : q < p => caller[q].pc # "idle"

\* The sets the application may save into the store itself; their token is
\* none the identity endpoint issues.
SaveChoices ==
    [accessToken : {MaxGrants + 1},
     refreshToken : {NoToken, MaxGrants + 1},
     expiresAt : {0, StartMs + (RefreshMarginSec + 1) * MsPerSecond}]

\* The application calls store.load().
StoreLoad ==
    /\ ops < MaxOps
    /\ ops' = ops + 1
    /\ probe' = [op |-> "load", n |-> ops + 1, val |-> current]
    /\ current' = afterLoad
    /\ UNCHANGED <<now, grants, caller>>
    /\ UNCHANGED jsVars
    /\ UNCHANGED cfg

\* The application calls store.save(tokens).
StoreSave(tokens) ==
    /\ ops < MaxOps
    /\ ops' = ops + 1
    /\ probe' = [op |-> "save", n |-> ops + 1, val |-> <<tokens>>]
    /\ current' = save(tokens)
    /\ UNCHANGED <<now, grants, caller>>
    /\ UNCHANGED jsVars
    /\ UNCHANGED cfg

\* The application calls store.clear().
StoreClear ==
    /\ ops < MaxOps
    /\ ops' = ops + 1
    /\ probe' = [op |-> "clear", n |-> ops + 1, val |-> NoSet]
    /\ current' = clear
    /\ UNCHANGED <<now, grants, caller>>
    /\ UNCHANGED jsVars
    /\ UNCHANGED cfg

\* getAccessToken(), up to its return from the cache or its first network
\* call: load, the validity test, then refresh() when the cached set has a
\* refresh token and passwordGrant() otherwise.
GetAccessToken(p) ==
    LET cached == current IN
    /\ TsFree(p)
    /\ ops < MaxOps
    /\ ops' = ops + 1
    /\ current' = afterLoad
    /\ IF cachedUsable(cached)
       THEN /\ caller' = [caller EXCEPT ![p] =
                            [TsIdle EXCEPT !.pc = "done",
                                           !.result = [kind |-> "ok", status |-> 0,
                                                       token |-> cached[1].accessToken]]]
            /\ UNCHANGED grants
       ELSE /\ grants < MaxGrants
            /\ grants' = grants + 1
            /\ caller' = [caller EXCEPT ![p] =
                            [TsIdle EXCEPT
                               !.pc = IF cachedRefreshToken(cached) # NoToken
                                      THEN "refresh" ELSE "password",
                               !.g = grants + 1,
                               !.rt = cachedRefreshToken(cached),
                               !.calls = 1]]
    /\ UNCHANGED <<now, probe>>
    /\ UNCHANGED jsVars
    /\ UNCHANGED cfg

\* The refresh call of p is answered with res.ok: the set is saved and its
\* access token returned.
RefreshOk(p, payload) ==
    LET refreshed == refresh(caller[p].rt, payload) IN
    /\ caller[p].pc = "refresh"
    /\ current' = save(refreshed)
    /\ caller' = [caller EXCEPT ![p].pc = "done",
                                ![p].result = [kind |-> "ok", status |-> 0,
                                               token |-> refreshed.accessToken]]
    /\ UNCHANGED <<now, grants, ops, probe>>
    /\ UNCHANGED jsVars
    /\ UNCHANGED cfg

\* The refresh call of p fails: the empty catch, then passwordGrant().
RefreshFail(p) ==
    /\ caller[p].pc = "refresh"
    /\ grants < MaxGrants
    /\ grants' = grants + 1
    /\ caller' = [caller EXCEPT ![p].pc = "password",
                                ![p].g = grants + 1,
                                ![p].calls = @ + 1]
    /\ UNCHANGED <<now, ops, current, probe>>
    /\ UNCHANGED jsVars
    /\ UNCHANGED cfg

\* The password grant of p is answered with res.ok.
PasswordOk(p, payload) ==
    LET fresh == passwordGrant(payload) IN
    /\ caller[p].pc = "password"
    /\ current' = save(fresh)
    /\ caller' = [caller EXCEPT ![p].pc = "done",
                                ![p].result = [kind |-> "ok", status |-> 0,
                                               token |-> fresh.accessToken]]
    /\ UNCHANGED <<now, grants, ops, probe>>
    /\ UNCHANGED jsVars
    /\ UNCHANGED cfg

\* The password grant of p fails: getAccessToken() rejects.
PasswordFail(p) ==
    /\ caller[p].pc = "password"
    /\ caller' = [caller EXCEPT ![p].pc = "done",
                                ![p].result = [kind |-> "err", status |-> 0,
                                               token |-> NoToken]]
    /\ UNCHANGED <<now, grants, ops, current, probe>>
    /\ UNCHANGED jsVars
    /\ UNCHANGED cfg

\* The caller has its result.
TsReturn(p) ==
    /\ caller[p].pc = "done"
    /\ caller' = [caller EXCEPT ![p] = TsIdle]
    /\ UNCHANGED <<now, grants, ops, current, probe>>
    /\ UNCHANGED jsVars
    /\ UNCHANGED cfg

\* AuthService over MemoryTokenStore, and the store under the application.
NextTs ==
    \/ \E p \in Procs : GetAccessToken(p)
    \/ \E p \in Procs : \E payload \in TsPayloads(caller[p].g) : RefreshOk(p, payload)
    \/ \E p \in Procs : RefreshFail(p)
    \/ \E p \in Procs : \E payload \in TsPayloads(caller[p].g) : PasswordOk(p, payload)
    \/ \E p \in Procs : PasswordFail(p)
    \/ \E p \in Procs : TsReturn(p)
    \/ StoreLoad
    \/ \E tokens \in SaveChoices : StoreSave(tokens)
    \/ StoreClear
    \/ Tick

SpecTs == Init /\ [][NextTs]_vars

\* ------------------------------------------------- claims (TypeScript)
\* The step is a call of the application on the store, of the given kind.
StoreCall(op) == probe' # probe /\ probe'.op = op

\* The step is the save getAccessToken() makes after a successful grant.
ServiceSave ==
    \E p \in Procs :
        /\ caller[p].pc \in {"refresh", "password"}
        /\ caller'[p].pc = "done"
        /\ caller'[p].result.kind = "ok"

\* C25: MemoryTokenStore holds nothing at first; load returns what the store
\* holds and leaves it there; save(s) replaces the whole content by s; clear
\* empties the store; and the content changes in no other step, so every load
\* returns the set last saved, or null when none was saved since the start or
\* the last clear.
C25_LoadReturnsLastSaved ==
    /\ current = NoSet
    /\ [][/\ StoreCall("load") => probe'.val = current /\ current' = current
          /\ StoreCall("save") => current' = probe'.val
          /\ StoreCall("clear") => current' = NoSet
          /\ current' # current
             => StoreCall("save") \/ StoreCall("clear") \/ ServiceSave]_vars

\* After getAccessToken() made a network call, a load has returned the set,
\* without refresh token, that the application saved.
C25_Witness ==
    /\ probe.op = "load"
    /\ probe.val # NoSet
    /\ probe.val = current
    /\ current[1].accessToken = MaxGrants + 1
    /\ current[1].refreshToken = NoToken
    /\ grants > 0

\* C26: concurrent calls of getAccessToken() that find an expired cached set
\* share one renewal: the callers awaiting a refresh at the same time await
\* the same network call.
C26_ConcurrentCallersOneNetworkCall ==
    \A p, q \in Procs :
        (caller[p].pc = "refresh" /\ caller[q].pc = "refresh")
        => caller[p].g = caller[q].g

\* The step ends a call of getAccessToken() by p with the given outcome.
TsReturns(p, kind) ==
    /\ caller[p].pc # "done"
    /\ caller'[p].pc = "done"
    /\ caller'[p].result.kind = kind

\* C28: getAccessToken() returns the cached access token, with no network
\* call and the store untouched, exactly when a set is cached and
\* expiresAt - now > T1_REFRESH_MARGIN_SEC * 1000; otherwise it calls
\* refresh when the cached set has a refresh token and the password grant
\* when it has none; a failed refresh is followed by the password grant; on
\* every successful return the store holds the set whose access token is
\* returned; a failed password grant leaves the store as it was and the
\* call rejects.
C28_CachedElseRefreshElsePassword ==
    [][\A p \in Procs :
         /\ (caller[p].pc = "idle" /\ caller'[p].pc # "idle")
            => /\ current' = current
               /\ IF /\ current # NoSet
                     /\ current[1].expiresAt - now > RefreshMarginSec * MsPerSecond
                  THEN /\ TsReturns(p, "ok")
                       /\ caller'[p].result.token = current[1].accessToken
                       /\ grants' = grants
                  ELSE /\ grants' = grants + 1
                       /\ caller'[p].pc =
                            IF current # NoSet /\ current[1].refreshToken # NoToken
                            THEN "refresh" ELSE "password"
         /\ (caller[p].pc = "refresh" /\ caller'[p].pc # "refresh")
            => \/ /\ TsReturns(p, "ok")
                  /\ grants' = grants
               \/ /\ caller'[p].pc = "password"
                  /\ grants' = grants + 1
                  /\ current' = current
         /\ (caller[p].pc = "password" /\ caller'[p].pc # "password")
            => /\ caller'[p].pc = "done"
               /\ grants' = grants
         /\ TsReturns(p, "ok")
            => /\ current' # NoSet
               /\ current'[1].accessToken = caller'[p].result.token
         /\ TsReturns(p, "err")
            => /\ caller[p].pc = "password"
               /\ current' = current]_vars

\* A call found an expired set with a refresh token, its refresh failed, its
\* password grant succeeded, and the store holds the set it returned.
C28_Witness ==
    \E p \in Procs :
        /\ caller[p].pc = "done"
        /\ caller[p].rt # NoToken
        /\ caller[p].calls = 2
        /\ caller[p].result.kind = "ok"
        /\ caller[p].result.token = caller[p].g
        /\ current # NoSet
        /\ current[1].accessToken = caller[p].result.token

\* The step takes task p to the await of a flight.
BeginsAwait(p) ==
    /\ proc'[p].pc = "await"
    /\ Len(proc'[p].hist) > Len(proc[p].hist)

\* C27: the slot is occupied exactly while a flight started by
\* runSingleFlight is unsettled, and by that flight; a caller that reaches
\* runSingleFlight with the slot empty starts a flight, which takes the
\* slot and has a number no earlier flight had; a caller that reaches it with
\* the slot occupied awaits the flight of the slot and starts no network
\* call; and no step takes two callers to an await.
C27_OnlyFirstObserverStarts ==
    /\ [](/\ \A fl \in flights : fl.st \in Unsettled => refreshInFlight = fl.id
          /\ refreshInFlight # NoFlight
             => \E fl \in flights : fl.id = refreshInFlight /\ fl.st \in Unsettled)
    /\ [][\A p \in Procs :
            BeginsAwait(p)
            => /\ \A q \in Procs : q # p => ~BeginsAwait(q)
               /\ IF refreshInFlight # NoFlight
                  THEN /\ Last(proc'[p].hist).id = refreshInFlight
                       /\ UNCHANGED <<refreshInFlight, flights, grants>>
                  ELSE /\ grants' = grants + 1
                       /\ refreshInFlight' = grants'
                       /\ Last(proc'[p].hist).id = grants'
                       /\ \A fl \in flights : fl.id < grants']_vars

\* One caller started a login flight and a second one, arriving while the
\* slot was occupied, awaits the same flight: one network call was made.
C27_Witness ==
    \E p, q \in Procs :
        /\ p # q
        /\ Waiting(p) /\ Waiting(q)
        /\ Last(proc[p].hist).id = refreshInFlight
        /\ Last(proc[q].hist).id = refreshInFlight
        /\ Last(proc[p].hist).kind = "login"
        /\ grants = 1

\* Task p has a call to httpClient under way.
Pending(p) == IsRequest(p) /\ proc[p].pc \in {"await", "sent", "retry"}

\* C29: every call to httpClient ends, resolved with a body or rejected, when
\* every network operation is answered or fails: a call sends at most twice
\* and asks for a token at most three times, each time awaiting at most two
\* flights, and a call under way reaches its end.
C29_EveryRequestTerminates ==
    /\ [](\A p \in Procs :
            IsRequest(p)
            => /\ Sends(p) <= 2
               /\ proc[p].renewals <= 2
               /\ Len(proc[p].hist) <= 2
               /\ proc[p].pc = "done" => proc[p].result.kind \in {"ok", "err"})
    /\ \A p \in Procs : Pending(p) ~> (proc[p].pc = "done" \/ BudgetSpent)

\* A request was answered 401 twice and ended; another ended after a 401
\* because its renewal failed, refresh and login both.
C29_Witness ==
    \E p, q \in Procs :
        /\ IsRequest(p) /\ proc[p].pc = "done"
        /\ proc[p].resp = <<401, 401>>
        /\ proc[p].result.kind = "err"
        /\ IsRequest(q) /\ proc[q].pc = "done"
        /\ proc[q].resp = <<401>>
        /\ proc[q].renewFailed
        /\ Len(proc[q].hist) = 2

\* A credential stored earlier has expired and has a refresh token; its
\* tokens are none the identity endpoint issues in the behaviour.
ExpiredConfig ==
    [InitConfig EXCEPT !.accessToken = MaxGrants + 1,
                       !.refreshToken = MaxGrants + 1,
                       !.expiresAt = StartMs,
                       !.issuedAt = StartMs]

InitExpired ==
    /\ now = StartMs
    /\ config = ExpiredConfig
    /\ refreshInFlight = NoFlight
    /\ flights = {}
    /\ grants = 0
    /\ proc = [p \in Procs |-> Idle]
    /\ ops = 0
    /\ InitTs

\* tokenManager and authService, started with an expired credential.
SpecExpired == InitExpired /\ [][Next]_vars

\* C30: the callers of ensureValidAccessToken that awaited one refresh flight
\* which failed all await one and the same login flight next, started after
\* that refresh, and when that login succeeds each of them resolves with the
\* token it returned: one refresh, then one login, however many callers.
C30_FailedRefreshThenOneLogin ==
    \A p, q \in Procs :
        LET h == proc[p].hist
            k == proc[q].hist
        IN
        (/\ proc[p].op = "ensure" /\ proc[q].op = "ensure"
         /\ Len(h) = 2 /\ Len(k) >= 1
         /\ h[1].kind = "refresh" /\ h[1].st = "err"
         /\ k[1].id = h[1].id)
        => /\ h[2].kind = "login"
           /\ h[2].id > h[1].id
           /\ Len(k) = 2 => k[2].id = h[2].id
           /\ (proc[p].pc = "done" /\ h[2].st = "ok")
              => proc[p].result = [kind |-> "ok", status |-> 0, token |-> h[2].token]
           /\ (proc[p].pc = "done" /\ proc[q].pc = "done")
              => proc[q].result = proc[p].result

\* Two callers awaited the refresh that failed, then the one login that
\* followed, and both resolved with the token of that login; the identity
\* endpoint was called twice.
C30_Witness ==
    \E p, q \in Procs :
        /\ p # q
        /\ proc[p].op = "ensure" /\ proc[q].op = "ensure"
        /\ proc[p].pc = "done" /\ proc[q].pc = "done"
        /\ Len(proc[p].hist) = 2 /\ proc[q].hist = proc[p].hist
        /\ proc[p].hist[1].kind = "refresh" /\ proc[p].hist[1].st = "err"
        /\ proc[p].hist[2].kind = "login" /\ proc[p].hist[2].st = "ok"
        /\ proc[p].result.token = proc[p].hist[2].token
        /\ proc[q].result = proc[p].result
        /\ proc[p].result.token # NoToken
        /\ grants = 2

\* C31: one call of ensureValidAccessToken awaits at most one refresh flight
\* and at most one login flight: a caller that awaited a login flight which
\* failed is rejected and awaits no second login.
C31_OneRefreshOneLoginPerCall ==
    \A p \in Procs :
        LET h == proc[p].hist IN
        /\ Cardinality({i \in DOMAIN h : h[i].kind = "refresh"}) <= 1
        /\ Cardinality({i \in DOMAIN h : h[i].kind = "login"}) <= 1

\* C32: once a call of ensureValidAccessToken has resolved through a renewal
\* that succeeded, a call made at the same clock instant returns the same
\* token from the cache, without a flight and without a network call,
\* whatever expires_in the response carried.
C32_ImmediateCallServedFromCache ==
    [][\A p, q \in Procs :
         (/\ proc[q].op = "ensure" /\ proc[q].pc = "done"
          /\ proc[q].hist # <<>>
          /\ proc[q].result.kind = "ok"
          /\ proc[q].result.token # NoToken
          /\ proc[q].result.token = config.accessToken
          /\ config.issuedAt = now
          /\ now' = now
          /\ proc[p].pc = "idle" /\ proc'[p].op = "ensure")
         => /\ proc'[p].pc = "done"
            /\ proc'[p].result = proc[q].result
            /\ UNCHANGED <<grants, flights, refreshInFlight>>]_vars

\* C33: a call of ensureValidAccessToken that resolves, resolves with an
\* access token that is not empty, and when the `finally` of a flight that
\* succeeded is about to clear the slot, the token of the flight is the
\* accessToken of the store; whatever success answer the identity endpoint
\* gave.
C33_ResolvesWithRealToken ==
    /\ \A p \in Procs :
         (proc[p].op = "ensure" /\ proc[p].pc = "done" /\ proc[p].result.kind = "ok")
         => proc[p].result.token # NoToken
    /\ \A fl \in flights :
         fl.st = "fnOk" => fl.token # NoToken /\ fl.token = config.accessToken

\* C34: a login or a refresh that fails, called directly or run by a flight,
\* leaves accessToken, refreshToken and expiresAt as they were; the refresh
\* token a failed refresh was made with is therefore still stored, and a
\* call of ensureValidAccessToken that finds the credential invalid and a
\* refresh token stored takes the refresh branch: it starts a refresh when
\* the slot is empty.
C34_FailedGrantLeavesStore ==
    [][/\ \A fl \in flights : \A fl2 \in flights' :
            (fl.st = "net" /\ fl2.id = fl.id /\ fl2.st = "fnErr")
            => /\ SameCredential(config', config)
               /\ fl.kind = "refresh" => config'.refreshToken # NoToken
       /\ \A p \in Procs :
            /\ (/\ proc[p].op \in {"login", "refresh"}
                /\ proc[p].pc = "net"
                /\ proc'[p].pc = "done"
                /\ proc'[p].result.kind = "err")
               => /\ SameCredential(config', config)
                  /\ proc[p].op = "refresh" => config'.refreshToken # NoToken
            /\ (/\ proc[p].pc = "idle" /\ proc'[p].op = "ensure"
                /\ config.accessToken = NoToken \/ now >= config.expiresAt
                /\ config.refreshToken # NoToken)
               => /\ proc'[p].pc = "await"
                  /\ proc'[p].branch = "refresh"
                  /\ refreshInFlight = NoFlight
                     => /\ grants' = grants + 1
                        /\ Last(proc'[p].hist).kind = "refresh"]_vars

\* A refresh was rejected, and the call of ensureValidAccessToken made after
\* it awaits a refresh flight, made with the refresh token that stayed.
C34_Witness ==
    \E p, q \in Procs :
        /\ proc[p].op = "refresh" /\ proc[p].pc = "done"
        /\ proc[p].g # 0
        /\ proc[p].result.kind = "err"
        /\ proc[q].op = "ensure" /\ Waiting(q)
        /\ Last(proc[q].hist).kind = "refresh"
        /\ Last(proc[q].hist).id > proc[p].g
        /\ config.refreshToken # NoToken

\* --------------------------------------- the two expiry computations
MaxMarginSec == 3     \* margins, in seconds, both variants are configured with
MaxLifetimeSec == 4   \* expires_in values, in seconds
MaxElapsedSec == 5    \* time followed after the issuance, in seconds

\* Date.now() counts ms: instants between the whole seconds are visited too.
HalfSecondMs == MsPerSecond \div 2

\* Both variants are configured with the same margin and nothing is stored.
InitExpiry ==
    /\ now \in {StartMs, StartMs + HalfSecondMs}
    /\ config \in {[InitConfig EXCEPT !.expirySkewSeconds = m] : m \in 1..MaxMarginSec}
    /\ cfg = [T1_REFRESH_MARGIN_SEC |-> config.expirySkewSeconds]
    /\ refreshInFlight = NoFlight
    /\ flights = {}
    /\ grants = 0
    /\ proc = [p \in Procs |-> Idle]
    /\ ops = 0
    /\ current = NoSet
    /\ caller = [p \in Procs |-> TsIdle]
    /\ probe = NoProbe

\* One token response with expires_in = lifetime reaches both variants at the
\* same instant: setTokens stores it in config, passwordGrant() builds the
\* set that getAccessToken() saves.
IssueBoth(lifetime) ==
    LET payload == [at |-> 1, rt |-> NoToken, ei |-> lifetime] IN
    /\ grants = 0
    /\ grants' = 1
    /\ config' = setTokens(payload)
    /\ current' = save(passwordGrant(payload))
    /\ UNCHANGED <<now, refreshInFlight, flights, proc, ops, caller, probe, cfg>>

\* Time passes after the issuance.
Elapse ==
    /\ grants = 1
    /\ now - config.issuedAt < MaxElapsedSec * MsPerSecond
    /\ now' = now + HalfSecondMs
    /\ UNCHANGED <<config, refreshInFlight, flights, grants, proc, ops>>
    /\ UNCHANGED tsVars

NextExpiry ==
    \/ \E lifetime \in 0..MaxLifetimeSec : IssueBoth(lifetime)
    \/ Elapse

SpecExpiry == InitExpiry /\ [][NextExpiry]_vars

\* C35: with equal margins, at every instant from the issuance on, the
\* JavaScript variant counts the stored token as valid (isTokenValid) exactly
\* when the TypeScript variant reuses the cached set (the test of
\* getAccessToken), whatever the margin, the lifetime and the instant of
\* issuance.
C35_VariantsAgreeOnUsable ==
    grants = 1 => (isTokenValid <=> cachedUsable(current))

\* Half a second before the JavaScript expiresAt, some time after the
\* issuance, both variants still use the token; the two stored instants
\* differ by the margin.
C35_Witness ==
    /\ grants = 1
    /\ now > config.issuedAt
    /\ now = config.expiresAt - HalfSecondMs
    /\ isTokenValid
    /\ cachedUsable(current)
    /\ current[1].expiresAt = config.expiresAt + cfg.T1_REFRESH_MARGIN_SEC * MsPerSecond
====
